---- MODULE Spec2Model ----
(***************************************************************************)
(* A model of panels-downloader (src/src/main.rs): App::run fetches a      *)
(* manifest, filters it to wallpaper entries, deals them round-robin into  *)
(* one unbounded channel per worker, drops the senders, spawns one task    *)
(* per channel and joins them all.                                         *)
(*                                                                         *)
(* The orchestrator (run) and every spawned task are processes.  A task's   *)
(* turn of its loop is three steps: the receive, the GET, and the file     *)
(* operations on the entry's own path.                                     *)
(***************************************************************************)
EXTENDS Integers, Sequences, FiniteSets, TLC

\* ------------------------------------------------------------------ bounds
\* Largest value given to App::new as `workers` (0 is included).
MaxWorkers == 2
\* Largest number of entries in the manifest's `data` map.
MaxEntries == 3

\* ------------------------------------------------------------ data model
\* Option::None of an Option<String> field.
None == "None"

\* The combinations of dhd / dsd an entry of the manifest can have.
EntryKinds == {"both", "hd", "sd", "none"}

\* ManifestData, reduced to the two fields the program reads.  `key` is the
\* entry's key in Manifest::data: the identity of the map slot.
ManifestData(k, kind) ==
    [key |-> k,
     dhd |-> IF kind \in {"both", "hd"} THEN "hd" \o ToString(k) ELSE None,
     dsd |-> IF kind \in {"both", "sd"} THEN "sd" \o ToString(k) ELSE None]

\* Manifest::data as HashMap::values() walks it.  The iteration order of a
\* HashMap is arbitrary but fixed for one map; the keys are opaque, so they are
\* named by their place in that order.
Manifests ==
    UNION {{[i \in 1..n |-> ManifestData(i, kinds[i])] : kinds \in [1..n -> EntryKinds]}
           : n \in 0..MaxEntries}

NoEntry == [key |-> 0, dhd |-> None, dsd |-> None]
NoBytes == [url |-> None, status |-> None]

\* ManifestData::is_wallpaper: a mutant that looks at dhd alone.
is_wallpaper_dhd_only(e) == e.dhd # None

\* ManifestData::is_wallpaper
is_wallpaper(e) == e.dhd # None \/ e.dsd # None

\* ManifestData::wallpaper_url: a mutant that prefers dsd.
wallpaper_url_dsd_first(e) == IF e.dsd # None THEN e.dsd ELSE e.dhd

\* ManifestData::wallpaper_url: dhd.or(dsd)
wallpaper_url(e) == IF e.dhd # None THEN e.dhd ELSE e.dsd

\* Manifest::wallpapers without the filter.
wallpapers_unfiltered(data) == data

\* Manifest::wallpapers: values().filter(is_wallpaper).collect()
wallpapers_of(data) == SelectSeq(data, is_wallpaper)

\* App::new without the clamp.
AppNewNoClamp(w) == w

\* App::new: workers = max(workers, 1)
AppNew(w) == IF w >= 1 THEN w ELSE 1

\* The distributor's lane for position i: a mutant that is off by one.
LaneOfShifted(i, w) == (i + 1) % w

\* senders.index(i % self.workers)
LaneOf(i, w) == i % w

\* The name built from the counter first and the lane second.
FormatFilenameSwapped(thread_number, count) ==
    ToString(count) \o "_" \o ToString(thread_number)

\* format!("{}_{}", thread_number, count)
FormatFilename(thread_number, count) ==
    ToString(thread_number) \o "_" \o ToString(count)

\* download_dir.push(filename); download_dir.set_extension(".jpg").
\* The pushed name holds no dot, so its stem is the whole name, and
\* set_extension appends "." and then the extension as given.
DestPath(filename) == filename \o "." \o ".jpg"

\* A receive that yields the newest buffered entry.
PopNewest(q) == [item |-> q[Len(q)], rest |-> SubSeq(q, 1, Len(q) - 1)]

\* A receive that leaves the entry it yields in the buffer.
PopKept(q) == [item |-> Head(q), rest |-> q]

\* reciever.recv() on a buffer that is not empty: an unbounded mpsc channel
\* yields the oldest buffered entry and removes it.
Pop(q) == [item |-> Head(q), rest |-> Tail(q)]

\* File::create: opens the path whether or not it exists, truncating.
CreateTruncates(path, fs) == TRUE

\* File::create_new: refuses a path that exists.
CreateNewAllowed(path, fs) == path \notin DOMAIN fs

\* `count += 1` left out.
NextCountStuck(c) == c

\* count += 1
NextCount(c) == c + 1

\* std::fs::create_dir (not _all): fails on a directory that exists.
CreateDirStrict(state, writable) ==
    IF state = "dir" THEN "err" ELSE IF writable THEN "ok" ELSE "err"

\* std::fs::create_dir_all: Ok on a directory that exists, else creates it
\* when the parent allows.
CreateDirAll(state, writable) ==
    IF state = "dir" THEN "ok" ELSE IF writable THEN "ok" ELSE "err"

\* A run that falls back to an empty manifest when the body does not parse.
AfterManifestFallback(outcome) ==
    IF outcome = "err_fetch" THEN "returned" ELSE "wallpapers"

\* `Manifest::get(..).await?`: where run goes after the manifest request.
AfterManifest(outcome) ==
    IF outcome = "ok" THEN "wallpapers" ELSE "returned"

\* A join that hands the first lane error to the caller.
JoinResultPropagate(results) ==
    IF \E l \in DOMAIN results : results[l] # "ok" THEN "err_lane" ELSE "ok"

\* `futures.join_all().await; Ok(())`: the lanes' results are dropped.
JoinResult(results) == "ok"

\* ----------------------------------------------------------------- state
VARIABLES
    configured,     \* the `workers` argument of App::new
    workers,        \* App::workers
    dirState,       \* the download directory: "absent" or "dir"
    parentWritable, \* whether the directory can be created
    files,          \* the files of the download directory: path -> what it
                    \* holds (how much was written, and the body of which URL)
    catalog,        \* what the manifest endpoint serves, as Manifest::data
    runPc,          \* where run() is
    runResult,      \* what run() returned: "none" until it returns
    manifest,       \* Manifest::data in iteration order
    manifestGets,   \* number of manifest GET requests issued
    manifestOutcome,\* what Manifest::get returned: "none" before the call
    wallpapers,     \* run's `wallpapers`
    distIdx,        \* the distribution loop's i
    sendersAlive,   \* whether `senders` is still alive
    rxOpen,         \* per lane: whether its receiver is alive
    queue,          \* per lane: the channel's buffer
    sent,           \* per lane: every entry sent to it, in order (history)
    lanePc,         \* per lane: where its task is
    count,          \* per lane: the task's `count`
    cur,            \* per lane: the entry in hand
    filename,       \* per lane: the file name of the entry in hand
    bytes,          \* per lane: wallpaper_bytes, as the body served for `url`,
                    \* with the status of the response that carried it
    laneResult,     \* per lane: the task's result
    taken,          \* per lane: entries received, with their file names (history)
    requested       \* per lane: image URLs requested, in order (history)

appVars == <<configured, workers>>
fsVars == <<dirState, parentWritable, files>>
netVars == <<catalog>>
runVars == <<runPc, runResult, manifest, manifestGets, manifestOutcome, wallpapers,
            distIdx>>
chanVars == <<sendersAlive, rxOpen, queue, sent>>
laneVars == <<lanePc, count, cur, filename, bytes, laneResult, taken, requested>>
vars == <<appVars, fsVars, netVars, runVars, chanVars, laneVars>>

\* The lanes run() makes: one per unit of App::workers.
Lanes == 0 .. workers - 1
\* The lanes whose task has been spawned.
Spawned == DOMAIN lanePc

\* A file left in the directory by an earlier run.
StaleFile == [origin |-> "stale", written |-> "all", url |-> None]
StalePath == DestPath(FormatFilename(0, 0))

\* ------------------------------------------------------------------ Init
\* main: App::new(domain, directory, workers) has run; run() has not started.
Init ==
    /\ configured \in 0..MaxWorkers
    /\ workers = AppNew(configured)
    /\ \/ dirState = "absent" /\ parentWritable \in BOOLEAN /\ files = <<>>
       \/ dirState = "dir" /\ parentWritable = TRUE
          /\ files \in {<<>>, StalePath :> StaleFile}
    /\ catalog \in Manifests
    /\ runPc = "create_dir"
    /\ runResult = "none"
    /\ manifest = <<>>
    /\ manifestGets = 0
    /\ manifestOutcome = "none"
    /\ wallpapers = <<>>
    /\ distIdx = 0
    /\ sendersAlive = FALSE
    /\ rxOpen = <<>>
    /\ queue = <<>>
    /\ sent = <<>>
    /\ lanePc = <<>>
    /\ count = <<>>
    /\ cur = <<>>
    /\ filename = <<>>
    /\ bytes = <<>>
    /\ laneResult = <<>>
    /\ taken = <<>>
    /\ requested = <<>>

\* ------------------------------------------------------- run(): the steps
\* create_dir_all(&self.download_directory).context(..)?
CreateDir ==
    /\ runPc = "create_dir"
    /\ IF CreateDirAll(dirState, parentWritable) = "ok"
         THEN /\ dirState' = "dir"
              /\ runPc' = "get_manifest"
              /\ runResult' = runResult
         ELSE /\ dirState' = dirState
              /\ runPc' = "returned"
              /\ runResult' = "err_dir"
    /\ UNCHANGED <<appVars, netVars, parentWritable, files, manifest, manifestGets,
                   manifestOutcome, wallpapers, distIdx, chanVars, laneVars>>

\* Manifest::get(&self.panels_domain).await? : one GET, then the body parsed.
\* The request fails, or the body does not parse, or the catalog comes back.
GetManifest ==
    /\ runPc = "get_manifest"
    /\ manifestGets' = manifestGets + 1
    /\ \E outcome \in {"err_fetch", "err_parse", "ok"} :
         /\ manifestOutcome' = outcome
         /\ manifest' = IF outcome = "ok" THEN catalog ELSE manifest
         /\ runPc' = AfterManifest(outcome)
         /\ runResult' = IF AfterManifest(outcome) = "returned"
                           THEN outcome ELSE runResult
    /\ UNCHANGED <<appVars, netVars, fsVars, wallpapers, distIdx, chanVars, laneVars>>

\* let wallpapers = manifest.wallpapers();
Wallpapers ==
    /\ runPc = "wallpapers"
    /\ wallpapers' = wallpapers_of(manifest)
    /\ runPc' = "channels"
    /\ UNCHANGED <<appVars, netVars, fsVars, runResult, manifest, manifestGets,
                   manifestOutcome, distIdx, chanVars, laneVars>>

\* The channel loop with every receiver dropped as it is made.
ChannelsReceiversDropped ==
    /\ runPc = "channels"
    /\ sendersAlive' = TRUE
    /\ rxOpen' = [l \in Lanes |-> FALSE]
    /\ queue' = [l \in Lanes |-> <<>>]
    /\ sent' = [l \in Lanes |-> <<>>]
    /\ runPc' = "distribute"
    /\ UNCHANGED <<appVars, netVars, fsVars, runResult, manifest, manifestGets,
                   manifestOutcome, wallpapers, distIdx, laneVars>>

\* for _ in 0..self.workers { unbounded_channel(); push sender, receiver }
Channels ==
    /\ runPc = "channels"
    /\ sendersAlive' = TRUE
    /\ rxOpen' = [l \in Lanes |-> TRUE]
    /\ queue' = [l \in Lanes |-> <<>>]
    /\ sent' = [l \in Lanes |-> <<>>]
    /\ runPc' = "distribute"
    /\ UNCHANGED <<appVars, netVars, fsVars, runResult, manifest, manifestGets,
                   manifestOutcome, wallpapers, distIdx, laneVars>>

\* One turn of the distribution loop:
\* senders.index(i % self.workers).send(wallpaper.clone()).context(..)?
\* The remainder by 0 panics; a send to a closed receiver is an error.
Send ==
    /\ runPc = "distribute"
    /\ distIdx < Len(wallpapers)
    /\ IF workers = 0
         THEN /\ runPc' = "panicked"
              /\ UNCHANGED <<runResult, distIdx, queue, sent>>
         ELSE LET l == LaneOf(distIdx, workers)
                  w == wallpapers[distIdx + 1]
              IN IF rxOpen[l]
                   THEN /\ queue' = [queue EXCEPT ![l] = Append(@, w)]
                        /\ sent' = [sent EXCEPT ![l] = Append(@, w)]
                        /\ distIdx' = distIdx + 1
                        /\ UNCHANGED <<runPc, runResult>>
                   ELSE /\ runPc' = "returned"
                        /\ runResult' = "err_send"
                        /\ UNCHANGED <<distIdx, queue, sent>>
    /\ UNCHANGED <<appVars, netVars, fsVars, manifest, manifestGets, manifestOutcome,
                   wallpapers, sendersAlive, rxOpen, laneVars>>

\* The distribution loop ends and `senders` is kept alive.
DropSendersForgotten ==
    /\ runPc = "distribute"
    /\ distIdx = Len(wallpapers)
    /\ runPc' = IF DOMAIN rxOpen = {} THEN "join" ELSE "spawn"
    /\ UNCHANGED <<appVars, netVars, fsVars, runResult, manifest, manifestGets,
                   manifestOutcome, wallpapers, distIdx, chanVars, laneVars>>

\* drop(senders); let mut futures = JoinSet::new();
DropSenders ==
    /\ runPc = "distribute"
    /\ distIdx = Len(wallpapers)
    /\ sendersAlive' = FALSE
    /\ runPc' = IF DOMAIN rxOpen = {} THEN "join" ELSE "spawn"
    /\ UNCHANGED <<appVars, netVars, fsVars, runResult, manifest, manifestGets,
                   manifestOutcome, wallpapers, distIdx, rxOpen, queue, sent,
                   laneVars>>

\* One turn of the spawn loop: futures.spawn(async move { let mut count = 0; .. })
\* for the next receiver.  The task may start running at once.
Spawn ==
    /\ runPc = "spawn"
    /\ LET l == Cardinality(Spawned)
       IN /\ l \in DOMAIN rxOpen
          /\ lanePc' = (l :> "recv") @@ lanePc
          /\ count' = (l :> 0) @@ count
          /\ cur' = (l :> NoEntry) @@ cur
          /\ filename' = (l :> None) @@ filename
          /\ bytes' = (l :> NoBytes) @@ bytes
          /\ laneResult' = (l :> "none") @@ laneResult
          /\ taken' = (l :> <<>>) @@ taken
          /\ requested' = (l :> <<>>) @@ requested
          /\ runPc' = IF l + 1 = Cardinality(DOMAIN rxOpen) THEN "join" ELSE "spawn"
    /\ UNCHANGED <<appVars, netVars, fsVars, runResult, manifest, manifestGets,
                   manifestOutcome, wallpapers, distIdx, chanVars>>

\* A join that does not wait for the lanes.
JoinAllNoWait ==
    /\ runPc = "join"
    /\ runResult' = JoinResult(laneResult)
    /\ runPc' = "returned"
    /\ UNCHANGED <<appVars, netVars, fsVars, manifest, manifestGets, manifestOutcome,
                   wallpapers, distIdx, chanVars, laneVars>>

\* futures.join_all().await; Ok(())
JoinAll ==
    /\ runPc = "join"
    /\ \A l \in Spawned : lanePc[l] = "done"
    /\ runResult' = JoinResult(laneResult)
    /\ runPc' = "returned"
    /\ UNCHANGED <<appVars, netVars, fsVars, manifest, manifestGets, manifestOutcome,
                   wallpapers, distIdx, chanVars, laneVars>>

\* ------------------------------------------------- a worker task: the steps
\* The task of lane l ends with result `why`: its receiver is dropped, and with
\* it whatever the channel still buffers.
Finish(l, why) ==
    /\ lanePc' = [lanePc EXCEPT ![l] = "done"]
    /\ laneResult' = [laneResult EXCEPT ![l] = why]
    /\ cur' = [cur EXCEPT ![l] = NoEntry]
    /\ filename' = [filename EXCEPT ![l] = None]
    /\ bytes' = [bytes EXCEPT ![l] = NoBytes]
    /\ rxOpen' = [rxOpen EXCEPT ![l] = FALSE]
    /\ queue' = [queue EXCEPT ![l] = <<>>]

\* while let Some(wallpaper) = reciever.recv().await {
\*     let filename = format!("{}_{}", thread_number, count); count += 1;
\* recv() yields the next buffered entry; None once the buffer is empty and no
\* sender is left; and waits otherwise.
Recv(l) ==
    /\ lanePc[l] = "recv"
    /\ IF queue[l] # <<>>
         THEN /\ cur' = [cur EXCEPT ![l] = Pop(queue[l]).item]
              /\ queue' = [queue EXCEPT ![l] = Pop(queue[l]).rest]
              /\ filename' = [filename EXCEPT ![l] = FormatFilename(l, count[l])]
              /\ count' = [count EXCEPT ![l] = NextCount(@)]
              /\ taken' = [taken EXCEPT ![l] =
                             Append(@, [entry |-> Pop(queue[l]).item,
                                        filename |-> FormatFilename(l, count[l])])]
              /\ lanePc' = [lanePc EXCEPT ![l] = "get"]
              /\ UNCHANGED <<bytes, laneResult, rxOpen>>
         ELSE /\ ~sendersAlive
              /\ Finish(l, "ok")
              /\ UNCHANGED <<count, taken>>
    /\ UNCHANGED <<appVars, netVars, fsVars, runVars, sendersAlive, sent, requested>>

\* download_wallpaper, to the end of the GET: the is_wallpaper guard, then
\* client.get(url).send().await?.bytes().await?  The request fails, or the
\* body cannot be received, or a body arrives: send() does not look at the
\* status, so the body of an error response arrives like any other.
Get(l) ==
    /\ lanePc[l] = "get"
    /\ IF ~is_wallpaper(cur[l])
         THEN /\ Finish(l, "err_not_wallpaper")
              /\ UNCHANGED requested
         ELSE /\ requested' = [requested EXCEPT ![l] = Append(@, wallpaper_url(cur[l]))]
              /\ \/ \E why \in {"err_connect", "err_receive"} : Finish(l, why)
                 \/ \E status \in {"success", "error"} :
                      /\ bytes' = [bytes EXCEPT ![l] =
                                     [url |-> wallpaper_url(cur[l]), status |-> status]]
                      /\ lanePc' = [lanePc EXCEPT ![l] = "save"]
                      /\ UNCHANGED <<cur, filename, laneResult, rxOpen, queue>>
    /\ UNCHANGED <<appVars, netVars, fsVars, runVars, sendersAlive, sent, count, taken>>

\* The rest of download_wallpaper, the file operations on the entry's own path:
\* File::create_new(path).await?  write_all(&wallpaper_bytes).await?
\* flush().await?  Ok(())  and `.await?;` back in the loop.
\* create_new fails when the path exists, and may fail for any other reason
\* the file system has; a failed write leaves the file with what it had
\* written; a failed flush leaves the file written.
Save(l) ==
    /\ lanePc[l] = "save"
    /\ LET path == DestPath(filename[l])
           made(w) == (path :> [origin |-> "run", written |-> w,
                                url |-> bytes[l].url]) @@ files
       IN \/ /\ Finish(l, "err_open")
             /\ UNCHANGED files
          \/ /\ CreateNewAllowed(path, files)
             /\ files' = made("partial")
             /\ Finish(l, "err_write")
          \/ /\ CreateNewAllowed(path, files)
             /\ files' = made("all")
             /\ Finish(l, "err_flush")
          \/ /\ CreateNewAllowed(path, files)
             /\ files' = made("all")
             /\ lanePc' = [lanePc EXCEPT ![l] = "recv"]
             /\ cur' = [cur EXCEPT ![l] = NoEntry]
             /\ filename' = [filename EXCEPT ![l] = None]
             /\ bytes' = [bytes EXCEPT ![l] = NoBytes]
             /\ UNCHANGED <<laneResult, rxOpen, queue>>
    /\ UNCHANGED <<appVars, netVars, dirState, parentWritable, runVars, sendersAlive,
                   sent, count, taken, requested>>

\* One step of the task of lane l.
Worker(l) ==
    /\ l \in Spawned
    /\ (Recv(l) \/ Get(l) \/ Save(l))

\* One step of run().
Run == CreateDir \/ GetManifest \/ Wallpapers \/ Channels \/ Send \/ DropSenders
       \/ Spawn \/ JoinAll

Next ==
    \/ CreateDir
    \/ GetManifest
    \/ Wallpapers
    \/ Channels
    \/ Send
    \/ DropSenders
    \/ Spawn
    \/ JoinAll
    \/ \E l \in Spawned : Recv(l)
    \/ \E l \in Spawned : Get(l)
    \/ \E l \in Spawned : Save(l)

Spec == Init /\ [][Next]_vars

\* The runtime schedules run() and every spawned task, and every request and
\* file operation comes back.
\* Which of its URLs an entry carries changes no step a task can take, so the
\* fair runs are drawn from the catalogs whose entries have dhd or no URL.
InitFair == Init /\ \A k \in DOMAIN catalog : catalog[k].dsd = None

FairSpec ==
    /\ InitFair
    /\ [][Next]_vars
    /\ WF_vars(Run)
    /\ \A l \in 0 .. MaxWorkers - 1 : WF_vars(Worker(l))

\* The runs in which lane 1, when there is one, may stop for ever at any of
\* its steps (its network call never resolves), while run() and every other
\* task are scheduled and their requests and file operations come back.
HangSpec ==
    /\ InitFair
    /\ [][Next]_vars
    /\ WF_vars(Run)
    /\ \A l \in (0 .. MaxWorkers - 1) \ {1} : WF_vars(Worker(l))

\* ------------------------------------------------------------ vocabulary
Max(a, b) == IF a >= b THEN a ELSE b

\* run() is past the channel loop.
ChannelsMade ==
    \/ runPc \in {"distribute", "spawn", "join"}
    \/ runPc = "returned" /\ runResult \in {"ok", "err_send", "err_lane"}

\* run() is past the distribution loop and drop(senders).
Distributed ==
    \/ runPc \in {"spawn", "join"}
    \/ runPc = "returned" /\ runResult \in {"ok", "err_lane"}

\* The files this run made.
MadeByRun == {p \in DOMAIN files : files[p].origin = "run"}

\* The number of positions below n that fall to lane l of w.
ShareSize(n, l, w) == Cardinality({i \in 0 .. n - 1 : i % w = l})

\* ---------------------------------------------------------------- claims

\* C1: a lane is never aborted by an item failure: whatever fails for an
\* entry (GET, create, write, flush), the lane goes on to take every later
\* entry of its queue, so a lane that has ended has taken all that was sent
\* to it.
C1_LaneTakesEveryEntry ==
    \A l \in Spawned : lanePc[l] = "done" => Len(taken[l]) = Len(sent[l])

\* C2: distribution is exact round-robin: while and right after the
\* distribution loop, with the first i entries of the filter's output dealt,
\* lane l has been sent, in order, precisely the entries at the positions
\* p < i with p mod w = l, so every entry dealt is in exactly one lane, none
\* lost and none twice; the loop ends with all n dealt; and when it has ended
\* every lane's queue holds what was sent to it.
C2_RoundRobinExhaustive ==
    /\ runPc \in {"distribute", "spawn"} =>
         /\ DOMAIN sent = 0 .. workers - 1
         /\ \A l \in DOMAIN sent :
              /\ Len(sent[l]) = ShareSize(distIdx, l, workers)
              /\ \A j \in 1 .. Len(sent[l]) :
                   sent[l][j] = wallpapers[(j - 1) * workers + l + 1]
         /\ \A i \in 0 .. distIdx - 1 :
              Cardinality({<<l, j>> \in (DOMAIN sent) \X (1 .. MaxEntries + 1) :
                             j <= Len(sent[l]) /\ sent[l][j] = wallpapers[i + 1]}) = 1
    /\ Distributed => distIdx = Len(wallpapers)
    /\ (runPc = "spawn" /\ Spawned = {}) => queue = sent

\* C2 witness: three entries dealt to two lanes, positions {0, 2} and {1}.
C2_Witness ==
    /\ runPc = "spawn"
    /\ workers = 2
    /\ Len(wallpapers) = 3
    /\ Len(queue[0]) = 2
    /\ Len(queue[1]) = 1

\* C3: once the entries are dealt and the senders dropped, every lane ends and
\* run() returns, whatever each request and file operation comes back with.
C3_LanesTerminate ==
    (runPc = "spawn") ~>
      (/\ runPc = "returned"
       /\ Spawned = 0 .. workers - 1
       /\ \A l \in Spawned : lanePc[l] = "done")

\* C3 witness: run() has returned after two lanes worked, one through two
\* entries, and both ended on an empty, closed queue.
C3_Witness ==
    /\ runPc = "returned"
    /\ Spawned = {0, 1}
    /\ \A l \in Spawned : lanePc[l] = "done" /\ laneResult[l] = "ok"
    /\ Len(taken[0]) = 2
    /\ Len(taken[1]) = 1

\* C4: no two entries taken in a run, in the same lane or in different ones,
\* get the same file name or the same destination path.
C4_UniqueDestinations ==
    \A l1 \in Spawned, l2 \in Spawned :
      \A j1 \in 1 .. Len(taken[l1]), j2 \in 1 .. Len(taken[l2]) :
        <<l1, j1>> # <<l2, j2>> =>
          /\ taken[l1][j1].filename # taken[l2][j2].filename
          /\ DestPath(taken[l1][j1].filename) # DestPath(taken[l2][j2].filename)

\* C4 witness: three entries have been given names, two of them in one lane.
C4_Witness ==
    /\ workers = 2
    /\ Spawned = {0, 1}
    /\ Len(taken[0]) = 2
    /\ Len(taken[1]) = 1

\* C5: once the entries are dealt, run() returns Ok whatever the items did.
C5_RunSucceedsDespiteItemFailures ==
    (Distributed /\ runPc = "returned") => runResult = "ok"

\* C5 witness: run() has returned Ok although every lane ended in an item
\* failure.
C5_Witness ==
    /\ runPc = "returned"
    /\ runResult = "ok"
    /\ Spawned = {0, 1}
    /\ \A l \in Spawned : Len(taken[l]) >= 1 /\ laneResult[l] \notin {"none", "ok"}

\* C6: an entry whose image response carries a non-success status gets no
\* output file: no file is ever made at its path for it.
C6_HttpErrorMakesNoFile ==
    [][\A l \in Spawned :
         (lanePc[l] = "save" /\ bytes[l].status = "error")
           => DestPath(filename[l]) \notin DOMAIN files' \ DOMAIN files]_vars

\* C7: the lane count is max(configured workers, 1), never 0: run() makes that
\* many channels and spawns that many tasks, one per channel.
C7_LaneCountClamped ==
    /\ workers = Max(configured, 1)
    /\ workers # 0
    /\ ChannelsMade =>
         /\ DOMAIN rxOpen = 0 .. Max(configured, 1) - 1
         /\ DOMAIN queue = DOMAIN rxOpen
    /\ Spawned \subseteq DOMAIN rxOpen
    /\ (Distributed /\ runPc # "spawn") =>
         /\ Spawned = DOMAIN rxOpen
         /\ Cardinality(Spawned) = Max(configured, 1)

\* C7 witness: configured with 0 workers, run() returned after one lane did
\* the work.
C7_Witness ==
    /\ configured = 0
    /\ runPc = "returned"
    /\ Cardinality(Spawned) = 1
    /\ Len(taken[0]) >= 1

\* C8: a failed directory creation ends run() with that error before any
\* request, channel, task or file; and a directory that exists never fails
\* the step.
C8_DirFailureIsFatalAndFirst ==
    /\ runResult = "err_dir" =>
         /\ runPc = "returned"
         /\ dirState = "absent"
         /\ manifestGets = 0
         /\ manifestOutcome = "none"
         /\ DOMAIN rxOpen = {}
         /\ Spawned = {}
         /\ files = <<>>
    /\ (runPc # "create_dir" /\ runResult # "err_dir") => dirState = "dir"
    /\ dirState = "dir" => runResult # "err_dir"

\* C8 witness: the directory could not be made and run() returned the error.
C8_Witness ==
    /\ runPc = "returned"
    /\ runResult = "err_dir"
    /\ ~parentWritable

\* C9: a manifest request that fails, or a body that does not parse, ends
\* run() with that error: one request, no entry dealt, no channel, no task, no
\* image request, no file made.
C9_ManifestFailureIsFatal ==
    /\ manifestGets <= 1
    /\ manifestOutcome \in {"err_fetch", "err_parse"} =>
         /\ runPc = "returned"
         /\ runResult = manifestOutcome
         /\ manifestGets = 1
         /\ wallpapers = <<>>
         /\ DOMAIN rxOpen = {}
         /\ DOMAIN sent = {}
         /\ Spawned = {}
         /\ MadeByRun = {}

\* C9 witness: the body did not parse and run() returned that error.
C9_Witness ==
    /\ manifestOutcome = "err_parse"
    /\ runPc = "returned"
    /\ runResult = "err_parse"

\* C10: what wallpapers() returned holds every entry of the manifest that has
\* dhd or dsd exactly once, and no entry that has neither.
C10_FilterExact ==
    runPc = "channels" =>
      /\ \A k \in 1 .. Len(manifest) :
           Cardinality({i \in 1 .. Len(wallpapers) : wallpapers[i] = manifest[k]})
             = IF manifest[k].dhd # None \/ manifest[k].dsd # None THEN 1 ELSE 0
      /\ \A i \in 1 .. Len(wallpapers) :
           \E k \in 1 .. Len(manifest) : wallpapers[i] = manifest[k]

\* C10 witness: of three entries two have dhd alone and one has neither, and
\* wallpapers() returned exactly the two.
C10_Witness ==
    /\ runPc = "channels"
    /\ Len(manifest) = 3
    /\ Cardinality({k \in 1 .. 3 : manifest[k].dhd # None /\ manifest[k].dsd = None}) = 2
    /\ Cardinality({k \in 1 .. 3 : manifest[k].dhd = None /\ manifest[k].dsd = None}) = 1
    /\ Len(wallpapers) = 2

\* C11: the URL a worker requests for an entry is the entry's dhd whenever dhd
\* is present, with or without dsd, and its dsd exactly when dhd is absent
\* and dsd is present; the j-th request of a lane is for the j-th entry it took.
C11_UrlResolution ==
    \A l \in Spawned :
      /\ Len(requested[l]) <= Len(taken[l])
      /\ \A j \in 1 .. Len(requested[l]) :
           LET e == taken[l][j].entry
               url == requested[l][j]
           IN /\ url # None
              /\ e.dhd # None => url = e.dhd
              /\ (url = e.dsd) <=> (e.dhd = None /\ e.dsd # None)

\* C11 witness: one lane has requested the dhd of an entry that has both URLs
\* and the dsd of an entry that has dsd alone.
C11_Witness ==
    /\ 0 \in Spawned
    /\ Len(requested[0]) = 2
    /\ \E j \in 1 .. 2, k \in 1 .. 2 :
         /\ taken[0][j].entry.dhd # None
         /\ taken[0][j].entry.dsd # None
         /\ requested[0][j] = taken[0][j].entry.dhd
         /\ taken[0][k].entry.dhd = None
         /\ requested[0][k] = taken[0][k].entry.dsd

\* C12: a lane works through its queue in the order of sending, one entry at
\* a time: what it has taken is the front of what was sent to it, what is
\* still buffered is the rest, every entry but the last taken is finished
\* with, and the lane holds an entry only between its receive and the end of
\* its download.
C12_LaneFifo ==
    \A l \in Spawned :
      /\ Len(taken[l]) <= Len(sent[l])
      /\ \A j \in 1 .. Len(taken[l]) : taken[l][j].entry = sent[l][j]
      /\ rxOpen[l] => queue[l] = SubSeq(sent[l], Len(taken[l]) + 1, Len(sent[l]))
      /\ lanePc[l] \in {"get", "save"} =>
           /\ taken[l] # <<>>
           /\ cur[l] = taken[l][Len(taken[l])].entry
           /\ Len(requested[l]) = Len(taken[l]) - (IF lanePc[l] = "get" THEN 1 ELSE 0)
      /\ lanePc[l] \in {"recv", "done"} => cur[l] = NoEntry

\* C12 witness: a lane sent two entries is on the second, the first done with.
C12_Witness ==
    /\ 0 \in Spawned
    /\ Len(sent[0]) = 2
    /\ Len(taken[0]) = 2
    /\ lanePc[0] = "save"
    /\ cur[0] = sent[0][2]
    /\ \E p \in MadeByRun : files[p].url = wallpaper_url(sent[0][1])

\* C13: a lane whose network call never resolves stalls no other lane: while
\* the call of one lane is pending, every other lane that has ended has taken,
\* and so processed, all the entries sent to it.
C13_OtherLanesFinishAllUnderHang ==
    \A h \in Spawned, l \in Spawned :
      (h # l /\ lanePc[h] = "get" /\ lanePc[l] = "done")
        => Len(taken[l]) = Len(sent[l])

\* C13, the part that holds: with lane 1 free to hang, every other lane that
\* is spawned ends.
C13_OtherLanesEndUnderHang ==
    \A l \in (0 .. MaxWorkers - 1) \ {1} :
      (l \in Spawned) ~> (l \in Spawned /\ lanePc[l] = "done")

\* C14: run() returns from the join only when a task was spawned for every
\* lane and every one of them has ended; with a lane still receiving or in
\* its download, run() has not returned.
C14_CompletionBarrier ==
    /\ (runPc = "returned" /\ ChannelsMade) =>
         /\ Spawned = DOMAIN rxOpen
         /\ Spawned = 0 .. workers - 1
    /\ \A l \in Spawned : lanePc[l] # "done" => runPc \in {"spawn", "join"}

\* C14 witness: run() has returned after two lanes that both had work ended.
C14_Witness ==
    /\ runPc = "returned"
    /\ Spawned = {0, 1}
    /\ \A l \in Spawned : Len(taken[l]) >= 1 /\ lanePc[l] = "done"

\* C15: the distributor's send never fails: throughout the distribution loop
\* no task is spawned and every receiver is alive, and run() never returns
\* the send error.
C15_SendNeverFails ==
    /\ runResult # "err_send"
    /\ runPc = "distribute" =>
         /\ Spawned = {}
         /\ sendersAlive
         /\ \A l \in DOMAIN rxOpen : rxOpen[l]

\* C15 witness: three entries have been sent to two lanes and the loop is
\* about to end.
C15_Witness ==
    /\ runPc = "distribute"
    /\ workers = 2
    /\ distIdx = 3
    /\ Len(queue[0]) = 2
    /\ Len(queue[1]) = 1

\* C16: each lane's counter is its own, starts at 0 and goes up by one with
\* every entry the lane takes, at the receive and so before the download and
\* whatever becomes of it: the counter is the number of entries the lane has
\* taken, the k-th entry taken by lane L (from 0) gets the file name L_k, and
\* a step that moves one lane's counter leaves every other lane's alone.
C16_PerLaneSequence ==
    /\ [](\A l \in Spawned :
            /\ count[l] = Len(taken[l])
            /\ Len(requested[l]) <= count[l]
            /\ \A j \in 1 .. Len(taken[l]) :
                 taken[l][j].filename = ToString(l) \o "_" \o ToString(j - 1)
            /\ lanePc[l] \in {"get", "save"} =>
                 filename[l] = ToString(l) \o "_" \o ToString(count[l] - 1))
    /\ [][\A l \in Spawned :
            count'[l] # count[l] =>
              /\ count'[l] = count[l] + 1
              /\ lanePc[l] = "recv"
              /\ lanePc'[l] = "get"
              /\ \A m \in Spawned \ {l} : count'[m] = count[m]]_vars

\* C16 witness: lane 0 has taken two entries and ended on a failure of the
\* second, lane 1 has taken one.
C16_Witness ==
    /\ Spawned = {0, 1}
    /\ count[0] = 2
    /\ laneResult[0] \notin {"none", "ok"}
    /\ count[1] = 1

\* C17: a file that exists is never written to or replaced: every file of the
\* directory stays as it is through every step, and a lane whose destination
\* path exists leaves its file step with the open error.
C17_CreateNewNeverOverwrites ==
    [][/\ \A p \in DOMAIN files : p \in DOMAIN files' /\ files'[p] = files[p]
       /\ \A l \in Spawned :
            (/\ lanePc[l] = "save"
             /\ DestPath(filename[l]) \in DOMAIN files
             /\ lanePc'[l] # "save")
              => (lanePc'[l] = "done" /\ laneResult'[l] = "err_open")]_vars

\* C17 witness: a file of an earlier run sits at lane 0's first path; lane 0
\* ended with the open error, the file is as it was, and lane 1 made its file.
C17_Witness ==
    /\ Spawned = {0, 1}
    /\ StalePath \in DOMAIN files
    /\ files[StalePath] = StaleFile
    /\ Len(taken[0]) = 1
    /\ DestPath(taken[0][1].filename) = StalePath
    /\ laneResult[0] = "err_open"
    /\ MadeByRun # {}

\* C18: fan-out precedes drain: once a task is spawned every entry has been
\* sent and the senders are dropped, so a lane at its receive never waits: it
\* finds a buffered entry or the end of the queue.
C18_FanOutPrecedesDrain ==
    /\ Spawned # {} =>
         /\ ~sendersAlive
         /\ distIdx = Len(wallpapers)
         /\ runPc \in {"spawn", "join", "returned"}
    /\ \A l \in Spawned :
         lanePc[l] = "recv" =>
           /\ queue[l] # <<>> \/ ~sendersAlive
           /\ ENABLED Recv(l)

\* C18 witness: a lane that has worked through its entry is at its receive on
\* an empty queue with no sender left.
C18_Witness ==
    /\ Spawned = {0, 1}
    /\ lanePc[0] = "recv"
    /\ queue[0] = <<>>
    /\ Len(taken[0]) >= 1
    /\ ~sendersAlive

\* C19: every entry a worker receives is a wallpaper entry: it has dhd or dsd,
\* so download_wallpaper's "does not contain wallpaper data" guard is never
\* taken and no request is made for an absent URL.
C19_OnlyWallpapersReachWorkers ==
    /\ \A l \in DOMAIN sent : \A j \in 1 .. Len(sent[l]) :
         sent[l][j].dhd # None \/ sent[l][j].dsd # None
    /\ \A l \in Spawned :
         /\ laneResult[l] # "err_not_wallpaper"
         /\ \A j \in 1 .. Len(taken[l]) :
              taken[l][j].entry.dhd # None \/ taken[l][j].entry.dsd # None
         /\ \A j \in 1 .. Len(requested[l]) : requested[l][j] # None

\* C19 witness: the manifest holds an entry with neither URL, and the lanes
\* have requested the URLs of the two entries that are wallpapers.
C19_Witness ==
    /\ Len(manifest) = 3
    /\ \E k \in 1 .. 3 : manifest[k].dhd = None /\ manifest[k].dsd = None
    /\ Len(wallpapers) = 2
    /\ Spawned = {0, 1}
    /\ \A l \in Spawned : Len(requested[l]) = 1

\* C20: each wallpaper entry is taken at most once, by at most one lane: the
\* entries taken in a run are pairwise different entries of `wallpapers`, so
\* the image requests and the files made never outnumber the wallpaper
\* entries, and no URL is requested twice.
C20_AtMostOnce ==
    LET Takes == {<<l, j>> \in Spawned \X (1 .. MaxEntries + 1) : j <= Len(taken[l])}
        Requests == {<<l, j>> \in Spawned \X (1 .. MaxEntries + 1) :
                       j <= Len(requested[l])}
    IN /\ \A t \in Takes :
            \E i \in 1 .. Len(wallpapers) : taken[t[1]][t[2]].entry = wallpapers[i]
       /\ \A t1 \in Takes, t2 \in Takes :
            t1 # t2 => taken[t1[1]][t1[2]].entry # taken[t2[1]][t2[2]].entry
       /\ \A r1 \in Requests, r2 \in Requests :
            r1 # r2 => requested[r1[1]][r1[2]] # requested[r2[1]][r2[2]]
       /\ Cardinality(Takes) <= Len(wallpapers)
       /\ Cardinality(Requests) <= Cardinality(Takes)
       /\ Cardinality(MadeByRun) <= Cardinality(Requests)

\* C20 witness: run() has returned with each of three wallpaper entries taken,
\* requested and saved once.
C20_Witness ==
    /\ runPc = "returned"
    /\ Len(wallpapers) = 3
    /\ Spawned = {0, 1}
    /\ Len(requested[0]) + Len(requested[1]) = 3
    /\ Cardinality(MadeByRun) = 3

====
